---------------------------- MODULE Spec2Model ----------------------------
(***************************************************************************)
(* JavaFoil batch macros of the ML_Aero parameter sweep.                   *)
(*                                                                         *)
(* Every macro file is a straight-line script of calls into the JavaFoil   *)
(* host (Options, Geometry, Polar, JavaFoil objects).  The module holds    *)
(* the text of every file as a sequence of call statements and a state     *)
(* machine of the host that loads one file per process and executes its    *)
(* statements one after the other.                                         *)
(*                                                                         *)
(* Numbers.  A JavaScript number literal is kept as the integer number of  *)
(* hundredths it denotes (every literal of the files has at most two       *)
(* decimals): 0.35 is 35, 6.0 is 600, 101 is 10100, -10.0 is -1000,        *)
(* 300000 is 30000000.  Num(u, h) builds such a value.  The literal false  *)
(* is FALSE.                                                               *)
(*                                                                         *)
(* Strings.  The directory of a Polar.Save path is one string; the file    *)
(* name, which the claims decode, is a sequence of one-character strings.  *)
(***************************************************************************)
EXTENDS Integers, Sequences, FiniteSets, TLC

\* number of macro files the batch driver runs one after the other
MaxBatch == 2

\* number of host calls that may report failure during one batch
MaxFailures == 1

Num(units, hundredths) == units * 100 + hundredths

ResultsDir == "/home/nevilcp/ML_Aero/results/"

(***************************************************************************)
(* The macro files: one statement per call, with its source line.          *)
(***************************************************************************)

\* the file saving under the name of the airfoil with camber position 3.0
macro_NACA0635_Re300000_M0p3_OtherName ==
  << [fn |-> "Options.Country", line |-> 2, args |-> <<100>>],
     [fn |-> "Geometry.CreateAirfoil", line |-> 3, args |-> <<0, 10100, 35, 0, 0, 600, 0, 0, 0, 0, 100>>],
     [fn |-> "Options.MachNumber", line |-> 4, args |-> <<30>>],
     [fn |-> "Polar.Analyze", line |-> 5, args |-> <<30000000, 30000000, 30000000, -1000, 1000, 100, 100, 100, 0, FALSE>>],
     [fn |-> "Polar.Save", line |-> 6, args |-> <<[dir |-> ResultsDir, name |-> <<"N", "A", "C", "A", "0", "3", "3", "5", "_", "R", "e", "3", "0", "0", "0", "0", "0", "_", "M", "0", "p", "3", "_", "p", "o", "l", "a", "r", ".", "x", "m", "l">>]>>],
     [fn |-> "JavaFoil.Exit", line |-> 7, args |-> <<>>] >>

\* src/macros_temp/macro_NACA0635_Re300000_M0p3.js
macro_NACA0635_Re300000_M0p3 ==
  << [fn |-> "Options.Country", line |-> 2, args |-> <<100>>],
     [fn |-> "Geometry.CreateAirfoil", line |-> 3, args |-> <<0, 10100, 35, 0, 0, 600, 0, 0, 0, 0, 100>>],
     [fn |-> "Options.MachNumber", line |-> 4, args |-> <<30>>],
     [fn |-> "Polar.Analyze", line |-> 5, args |-> <<30000000, 30000000, 30000000, -1000, 1000, 100, 100, 100, 0, FALSE>>],
     [fn |-> "Polar.Save", line |-> 6, args |-> <<[dir |-> ResultsDir, name |-> <<"N", "A", "C", "A", "0", "6", "3", "5", "_", "R", "e", "3", "0", "0", "0", "0", "0", "_", "M", "0", "p", "3", "_", "p", "o", "l", "a", "r", ".", "x", "m", "l">>]>>],
     [fn |-> "JavaFoil.Exit", line |-> 7, args |-> <<>>] >>

\* src/macros_temp/macro_NACA1120_Re500000_M0p2.js
macro_NACA1120_Re500000_M0p2 ==
  << [fn |-> "Options.Country", line |-> 2, args |-> <<100>>],
     [fn |-> "Geometry.CreateAirfoil", line |-> 3, args |-> <<0, 10100, 20, 0, 1, 100, 0, 0, 0, 0, 100>>],
     [fn |-> "Options.MachNumber", line |-> 4, args |-> <<20>>],
     [fn |-> "Polar.Analyze", line |-> 5, args |-> <<50000000, 50000000, 50000000, -1000, 1000, 100, 100, 100, 0, FALSE>>],
     [fn |-> "Polar.Save", line |-> 6, args |-> <<[dir |-> ResultsDir, name |-> <<"N", "A", "C", "A", "1", "1", "2", "0", "_", "R", "e", "5", "0", "0", "0", "0", "0", "_", "M", "0", "p", "2", "_", "p", "o", "l", "a", "r", ".", "x", "m", "l">>]>>],
     [fn |-> "JavaFoil.Exit", line |-> 7, args |-> <<>>],
     [fn |-> "Options.Country", line |-> 10, args |-> <<100>>],
     [fn |-> "Geometry.CreateAirfoil", line |-> 11, args |-> <<0, 10100, 15, 0, 2, 400, 0, 0, 0, 0, 100>>],
     [fn |-> "Options.MachNumber", line |-> 12, args |-> <<10>>],
     [fn |-> "Polar.Analyze", line |-> 13, args |-> <<50000000, 50000000, 50000000, -1000, 1000, 100, 100, 100, 0, FALSE>>],
     [fn |-> "Polar.Save", line |-> 14, args |-> <<[dir |-> ResultsDir, name |-> <<"N", "A", "C", "A", "2", "4", "1", "5", "_", "R", "e", "5", "0", "0", "0", "0", "0", "_", "M", "0", "p", "1", "_", "p", "o", "l", "a", "r", ".", "x", "m", "l">>]>>],
     [fn |-> "JavaFoil.Exit", line |-> 15, args |-> <<>>] >>

\* src/macros_temp/macro_NACA2505_Re500000_M0p2.js
macro_NACA2505_Re500000_M0p2 ==
  << [fn |-> "Options.Country", line |-> 2, args |-> <<100>>],
     [fn |-> "Geometry.CreateAirfoil", line |-> 3, args |-> <<0, 10100, 5, 0, 2, 500, 0, 0, 0, 0, 100>>],
     [fn |-> "Options.MachNumber", line |-> 4, args |-> <<20>>],
     [fn |-> "Polar.Analyze", line |-> 5, args |-> <<50000000, 50000000, 50000000, -1000, 1000, 100, 100, 100, 0, FALSE>>],
     [fn |-> "Polar.Save", line |-> 6, args |-> <<[dir |-> ResultsDir, name |-> <<"N", "A", "C", "A", "2", "5", "0", "5", "_", "R", "e", "5", "0", "0", "0", "0", "0", "_", "M", "0", "p", "2", "_", "p", "o", "l", "a", "r", ".", "x", "m", "l">>]>>],
     [fn |-> "JavaFoil.Exit", line |-> 7, args |-> <<>>] >>

\* the file with a Reynolds sweep 400000, 500000, 600000
macro_NACA2730_Re400000_M0p2_Sweep ==
  << [fn |-> "Options.Country", line |-> 2, args |-> <<100>>],
     [fn |-> "Geometry.CreateAirfoil", line |-> 3, args |-> <<0, 10100, 30, 0, 2, 700, 0, 0, 0, 0, 100>>],
     [fn |-> "Options.MachNumber", line |-> 4, args |-> <<20>>],
     [fn |-> "Polar.Analyze", line |-> 5, args |-> <<40000000, 50000000, 60000000, -1000, 1000, 100, 100, 100, 0, FALSE>>],
     [fn |-> "Polar.Save", line |-> 6, args |-> <<[dir |-> ResultsDir, name |-> <<"N", "A", "C", "A", "2", "7", "3", "0", "_", "R", "e", "4", "0", "0", "0", "0", "0", "_", "M", "0", "p", "2", "_", "p", "o", "l", "a", "r", ".", "x", "m", "l">>]>>],
     [fn |-> "JavaFoil.Exit", line |-> 7, args |-> <<>>] >>

\* src/macros_temp/macro_NACA2730_Re400000_M0p2.js
macro_NACA2730_Re400000_M0p2 ==
  << [fn |-> "Options.Country", line |-> 2, args |-> <<100>>],
     [fn |-> "Geometry.CreateAirfoil", line |-> 3, args |-> <<0, 10100, 30, 0, 2, 700, 0, 0, 0, 0, 100>>],
     [fn |-> "Options.MachNumber", line |-> 4, args |-> <<20>>],
     [fn |-> "Polar.Analyze", line |-> 5, args |-> <<40000000, 40000000, 40000000, -1000, 1000, 100, 100, 100, 0, FALSE>>],
     [fn |-> "Polar.Save", line |-> 6, args |-> <<[dir |-> ResultsDir, name |-> <<"N", "A", "C", "A", "2", "7", "3", "0", "_", "R", "e", "4", "0", "0", "0", "0", "0", "_", "M", "0", "p", "2", "_", "p", "o", "l", "a", "r", ".", "x", "m", "l">>]>>],
     [fn |-> "JavaFoil.Exit", line |-> 7, args |-> <<>>] >>

\* the file with a nine-argument Geometry.CreateAirfoil
macro_NACA4305_Re500000_M0p3_NineArgs ==
  << [fn |-> "Options.Country", line |-> 2, args |-> <<100>>],
     [fn |-> "Geometry.CreateAirfoil", line |-> 3, args |-> <<0, 10100, 5, 0, 4, 300, 0, 0, 100>>],
     [fn |-> "Options.MachNumber", line |-> 4, args |-> <<30>>],
     [fn |-> "Polar.Analyze", line |-> 5, args |-> <<50000000, 50000000, 50000000, -1000, 1000, 100, 100, 100, 0, FALSE>>],
     [fn |-> "Polar.Save", line |-> 6, args |-> <<[dir |-> ResultsDir, name |-> <<"N", "A", "C", "A", "4", "3", "0", "5", "_", "R", "e", "5", "0", "0", "0", "0", "0", "_", "M", "0", "p", "3", "_", "p", "o", "l", "a", "r", ".", "x", "m", "l">>]>>],
     [fn |-> "JavaFoil.Exit", line |-> 7, args |-> <<>>] >>

\* src/macros_temp/macro_NACA4305_Re500000_M0p3.js
macro_NACA4305_Re500000_M0p3 ==
  << [fn |-> "Options.Country", line |-> 2, args |-> <<100>>],
     [fn |-> "Geometry.CreateAirfoil", line |-> 3, args |-> <<0, 10100, 5, 0, 4, 300, 0, 0, 0, 0, 100>>],
     [fn |-> "Options.MachNumber", line |-> 4, args |-> <<30>>],
     [fn |-> "Polar.Analyze", line |-> 5, args |-> <<50000000, 50000000, 50000000, -1000, 1000, 100, 100, 100, 0, FALSE>>],
     [fn |-> "Polar.Save", line |-> 6, args |-> <<[dir |-> ResultsDir, name |-> <<"N", "A", "C", "A", "4", "3", "0", "5", "_", "R", "e", "5", "0", "0", "0", "0", "0", "_", "M", "0", "p", "3", "_", "p", "o", "l", "a", "r", ".", "x", "m", "l">>]>>],
     [fn |-> "JavaFoil.Exit", line |-> 7, args |-> <<>>] >>

\* the file saving under a name that leaves the Mach number out of account
macro_NACA8315_Re300000_M0p3_NoMach ==
  << [fn |-> "Options.Country", line |-> 2, args |-> <<100>>],
     [fn |-> "Geometry.CreateAirfoil", line |-> 3, args |-> <<0, 10100, 15, 0, 8, 300, 0, 0, 0, 0, 100>>],
     [fn |-> "Options.MachNumber", line |-> 4, args |-> <<30>>],
     [fn |-> "Polar.Analyze", line |-> 5, args |-> <<30000000, 30000000, 30000000, -1000, 1000, 100, 100, 100, 0, FALSE>>],
     [fn |-> "Polar.Save", line |-> 6, args |-> <<[dir |-> ResultsDir, name |-> <<"N", "A", "C", "A", "8", "3", "3", "5", "_", "R", "e", "3", "0", "0", "0", "0", "0", "_", "M", "0", "p", "1", "_", "p", "o", "l", "a", "r", ".", "x", "m", "l">>]>>],
     [fn |-> "JavaFoil.Exit", line |-> 7, args |-> <<>>] >>

\* src/macros_temp/macro_NACA8315_Re300000_M0p3.js
macro_NACA8315_Re300000_M0p3 ==
  << [fn |-> "Options.Country", line |-> 2, args |-> <<100>>],
     [fn |-> "Geometry.CreateAirfoil", line |-> 3, args |-> <<0, 10100, 15, 0, 8, 300, 0, 0, 0, 0, 100>>],
     [fn |-> "Options.MachNumber", line |-> 4, args |-> <<30>>],
     [fn |-> "Polar.Analyze", line |-> 5, args |-> <<30000000, 30000000, 30000000, -1000, 1000, 100, 100, 100, 0, FALSE>>],
     [fn |-> "Polar.Save", line |-> 6, args |-> <<[dir |-> ResultsDir, name |-> <<"N", "A", "C", "A", "8", "3", "1", "5", "_", "R", "e", "3", "0", "0", "0", "0", "0", "_", "M", "0", "p", "3", "_", "p", "o", "l", "a", "r", ".", "x", "m", "l">>]>>],
     [fn |-> "JavaFoil.Exit", line |-> 7, args |-> <<>>] >>

\* the file with Polar.Analyze issued in front of Options.MachNumber
macro_NACA8335_Re300000_M0p1_AnalyzeFirst ==
  << [fn |-> "Options.Country", line |-> 2, args |-> <<100>>],
     [fn |-> "Geometry.CreateAirfoil", line |-> 3, args |-> <<0, 10100, 35, 0, 8, 300, 0, 0, 0, 0, 100>>],
     [fn |-> "Polar.Analyze", line |-> 4, args |-> <<30000000, 30000000, 30000000, -1000, 1000, 100, 100, 100, 0, FALSE>>],
     [fn |-> "Options.MachNumber", line |-> 5, args |-> <<10>>],
     [fn |-> "Polar.Save", line |-> 6, args |-> <<[dir |-> ResultsDir, name |-> <<"N", "A", "C", "A", "8", "3", "3", "5", "_", "R", "e", "3", "0", "0", "0", "0", "0", "_", "M", "0", "p", "1", "_", "p", "o", "l", "a", "r", ".", "x", "m", "l">>]>>],
     [fn |-> "JavaFoil.Exit", line |-> 7, args |-> <<>>] >>

\* src/macros_temp/macro_NACA8335_Re300000_M0p1.js
macro_NACA8335_Re300000_M0p1 ==
  << [fn |-> "Options.Country", line |-> 2, args |-> <<100>>],
     [fn |-> "Geometry.CreateAirfoil", line |-> 3, args |-> <<0, 10100, 35, 0, 8, 300, 0, 0, 0, 0, 100>>],
     [fn |-> "Options.MachNumber", line |-> 4, args |-> <<10>>],
     [fn |-> "Polar.Analyze", line |-> 5, args |-> <<30000000, 30000000, 30000000, -1000, 1000, 100, 100, 100, 0, FALSE>>],
     [fn |-> "Polar.Save", line |-> 6, args |-> <<[dir |-> ResultsDir, name |-> <<"N", "A", "C", "A", "8", "3", "3", "5", "_", "R", "e", "3", "0", "0", "0", "0", "0", "_", "M", "0", "p", "1", "_", "p", "o", "l", "a", "r", ".", "x", "m", "l">>]>>],
     [fn |-> "JavaFoil.Exit", line |-> 7, args |-> <<>>] >>

\* src/macros_temp/macro_NACA9235_Re200000_M0p3.js
macro_NACA9235_Re200000_M0p3 ==
  << [fn |-> "Options.Country", line |-> 2, args |-> <<100>>],
     [fn |-> "Geometry.CreateAirfoil", line |-> 3, args |-> <<0, 10100, 35, 0, 9, 200, 0, 0, 0, 0, 100>>],
     [fn |-> "Options.MachNumber", line |-> 4, args |-> <<30>>],
     [fn |-> "Polar.Analyze", line |-> 5, args |-> <<20000000, 20000000, 20000000, -1000, 1000, 100, 100, 100, 0, FALSE>>],
     [fn |-> "Polar.Save", line |-> 6, args |-> <<[dir |-> ResultsDir, name |-> <<"N", "A", "C", "A", "9", "2", "3", "5", "_", "R", "e", "2", "0", "0", "0", "0", "0", "_", "M", "0", "p", "3", "_", "p", "o", "l", "a", "r", ".", "x", "m", "l">>]>>],
     [fn |-> "JavaFoil.Exit", line |-> 7, args |-> <<>>] >>

\* src/unnamed/part_000
part_000 ==
  << [fn |-> "Options.Country", line |-> 2, args |-> <<100>>],
     [fn |-> "Geometry.CreateAirfoil", line |-> 3, args |-> <<0, 10100, 25, 0, 8, 200, 0, 0, 0, 0, 100>>],
     [fn |-> "Options.MachNumber", line |-> 4, args |-> <<10>>],
     [fn |-> "Polar.Analyze", line |-> 5, args |-> <<10000000, 10000000, 10000000, -1000, 1000, 100, 100, 100, 0, FALSE>>],
     [fn |-> "Polar.Save", line |-> 6, args |-> <<[dir |-> ResultsDir, name |-> <<"N", "A", "C", "A", "8", "2", "2", "5", "_", "R", "e", "1", "0", "0", "0", "0", "0", "_", "M", "0", "p", "1", "_", "p", "o", "l", "a", "r", ".", "x", "m", "l">>]>>],
     [fn |-> "JavaFoil.Exit", line |-> 7, args |-> <<>>] >>

\* src/unnamed/part_001
part_001 ==
  << [fn |-> "Options.Country", line |-> 2, args |-> <<100>>],
     [fn |-> "Geometry.CreateAirfoil", line |-> 3, args |-> <<0, 10100, 25, 0, 6, 500, 0, 0, 0, 0, 100>>],
     [fn |-> "Options.MachNumber", line |-> 4, args |-> <<20>>],
     [fn |-> "Polar.Analyze", line |-> 5, args |-> <<20000000, 20000000, 20000000, -1000, 1000, 100, 100, 100, 0, FALSE>>],
     [fn |-> "Polar.Save", line |-> 6, args |-> <<[dir |-> ResultsDir, name |-> <<"N", "A", "C", "A", "6", "5", "2", "5", "_", "R", "e", "2", "0", "0", "0", "0", "0", "_", "M", "0", "p", "2", "_", "p", "o", "l", "a", "r", ".", "x", "m", "l">>]>>],
     [fn |-> "JavaFoil.Exit", line |-> 7, args |-> <<>>] >>

\* src/unnamed/part_002
part_002 ==
  << [fn |-> "Options.Country", line |-> 2, args |-> <<100>>],
     [fn |-> "Geometry.CreateAirfoil", line |-> 3, args |-> <<0, 10100, 30, 0, 9, 200, 0, 0, 0, 0, 100>>],
     [fn |-> "Options.MachNumber", line |-> 4, args |-> <<20>>],
     [fn |-> "Polar.Analyze", line |-> 5, args |-> <<30000000, 30000000, 30000000, -1000, 1000, 100, 100, 100, 0, FALSE>>],
     [fn |-> "Polar.Save", line |-> 6, args |-> <<[dir |-> ResultsDir, name |-> <<"N", "A", "C", "A", "9", "2", "3", "0", "_", "R", "e", "3", "0", "0", "0", "0", "0", "_", "M", "0", "p", "2", "_", "p", "o", "l", "a", "r", ".", "x", "m", "l">>]>>],
     [fn |-> "JavaFoil.Exit", line |-> 7, args |-> <<>>] >>

\* src/unnamed/part_003
part_003 ==
  << [fn |-> "Options.Country", line |-> 2, args |-> <<100>>],
     [fn |-> "Geometry.CreateAirfoil", line |-> 3, args |-> <<0, 10100, 5, 0, 5, 700, 0, 0, 0, 0, 100>>],
     [fn |-> "Options.MachNumber", line |-> 4, args |-> <<20>>],
     [fn |-> "Polar.Analyze", line |-> 5, args |-> <<40000000, 40000000, 40000000, -1000, 1000, 100, 100, 100, 0, FALSE>>],
     [fn |-> "Polar.Save", line |-> 6, args |-> <<[dir |-> ResultsDir, name |-> <<"N", "A", "C", "A", "5", "7", "0", "5", "_", "R", "e", "4", "0", "0", "0", "0", "0", "_", "M", "0", "p", "2", "_", "p", "o", "l", "a", "r", ".", "x", "m", "l">>]>>],
     [fn |-> "JavaFoil.Exit", line |-> 7, args |-> <<>>] >>

\* the file with a panel count of 100
part_004_Panels ==
  << [fn |-> "Options.Country", line |-> 2, args |-> <<100>>],
     [fn |-> "Geometry.CreateAirfoil", line |-> 3, args |-> <<0, 10000, 10, 0, 9, 500, 0, 0, 0, 0, 100>>],
     [fn |-> "Options.MachNumber", line |-> 4, args |-> <<20>>],
     [fn |-> "Polar.Analyze", line |-> 5, args |-> <<20000000, 20000000, 20000000, -1000, 1000, 100, 100, 100, 0, FALSE>>],
     [fn |-> "Polar.Save", line |-> 6, args |-> <<[dir |-> ResultsDir, name |-> <<"N", "A", "C", "A", "9", "5", "1", "0", "_", "R", "e", "2", "0", "0", "0", "0", "0", "_", "M", "0", "p", "2", "_", "p", "o", "l", "a", "r", ".", "x", "m", "l">>]>>],
     [fn |-> "JavaFoil.Exit", line |-> 7, args |-> <<>>] >>

\* src/unnamed/part_004
part_004 ==
  << [fn |-> "Options.Country", line |-> 2, args |-> <<100>>],
     [fn |-> "Geometry.CreateAirfoil", line |-> 3, args |-> <<0, 10100, 10, 0, 9, 500, 0, 0, 0, 0, 100>>],
     [fn |-> "Options.MachNumber", line |-> 4, args |-> <<20>>],
     [fn |-> "Polar.Analyze", line |-> 5, args |-> <<20000000, 20000000, 20000000, -1000, 1000, 100, 100, 100, 0, FALSE>>],
     [fn |-> "Polar.Save", line |-> 6, args |-> <<[dir |-> ResultsDir, name |-> <<"N", "A", "C", "A", "9", "5", "1", "0", "_", "R", "e", "2", "0", "0", "0", "0", "0", "_", "M", "0", "p", "2", "_", "p", "o", "l", "a", "r", ".", "x", "m", "l">>]>>],
     [fn |-> "JavaFoil.Exit", line |-> 7, args |-> <<>>] >>

\* the file with Options.MachNumber issued in front of Geometry.CreateAirfoil
part_005_MachFirst ==
  << [fn |-> "Options.Country", line |-> 2, args |-> <<100>>],
     [fn |-> "Options.MachNumber", line |-> 3, args |-> <<10>>],
     [fn |-> "Geometry.CreateAirfoil", line |-> 4, args |-> <<0, 10100, 5, 0, 8, 100, 0, 0, 0, 0, 100>>],
     [fn |-> "Polar.Analyze", line |-> 5, args |-> <<40000000, 40000000, 40000000, -1000, 1000, 100, 100, 100, 0, FALSE>>],
     [fn |-> "Polar.Save", line |-> 6, args |-> <<[dir |-> ResultsDir, name |-> <<"N", "A", "C", "A", "8", "1", "0", "5", "_", "R", "e", "4", "0", "0", "0", "0", "0", "_", "M", "0", "p", "1", "_", "p", "o", "l", "a", "r", ".", "x", "m", "l">>]>>],
     [fn |-> "JavaFoil.Exit", line |-> 7, args |-> <<>>] >>

\* src/unnamed/part_005
part_005 ==
  << [fn |-> "Options.Country", line |-> 2, args |-> <<100>>],
     [fn |-> "Geometry.CreateAirfoil", line |-> 3, args |-> <<0, 10100, 5, 0, 8, 100, 0, 0, 0, 0, 100>>],
     [fn |-> "Options.MachNumber", line |-> 4, args |-> <<10>>],
     [fn |-> "Polar.Analyze", line |-> 5, args |-> <<40000000, 40000000, 40000000, -1000, 1000, 100, 100, 100, 0, FALSE>>],
     [fn |-> "Polar.Save", line |-> 6, args |-> <<[dir |-> ResultsDir, name |-> <<"N", "A", "C", "A", "8", "1", "0", "5", "_", "R", "e", "4", "0", "0", "0", "0", "0", "_", "M", "0", "p", "1", "_", "p", "o", "l", "a", "r", ".", "x", "m", "l">>]>>],
     [fn |-> "JavaFoil.Exit", line |-> 7, args |-> <<>>] >>

FileNames ==
  { "macro_NACA0635_Re300000_M0p3",
    "macro_NACA1120_Re500000_M0p2",
    "macro_NACA2505_Re500000_M0p2",
    "macro_NACA2730_Re400000_M0p2",
    "macro_NACA4305_Re500000_M0p3",
    "macro_NACA8315_Re300000_M0p3",
    "macro_NACA8335_Re300000_M0p1",
    "macro_NACA9235_Re200000_M0p3",
    "part_000",
    "part_001",
    "part_002",
    "part_003",
    "part_004",
    "part_005" }

ProgramOf ==
  [ f \in FileNames |->
    CASE f = "macro_NACA0635_Re300000_M0p3" -> macro_NACA0635_Re300000_M0p3
      [] f = "macro_NACA1120_Re500000_M0p2" -> macro_NACA1120_Re500000_M0p2
      [] f = "macro_NACA2505_Re500000_M0p2" -> macro_NACA2505_Re500000_M0p2
      [] f = "macro_NACA2730_Re400000_M0p2" -> macro_NACA2730_Re400000_M0p2
      [] f = "macro_NACA4305_Re500000_M0p3" -> macro_NACA4305_Re500000_M0p3
      [] f = "macro_NACA8315_Re300000_M0p3" -> macro_NACA8315_Re300000_M0p3
      [] f = "macro_NACA8335_Re300000_M0p1" -> macro_NACA8335_Re300000_M0p1
      [] f = "macro_NACA9235_Re200000_M0p3" -> macro_NACA9235_Re200000_M0p3
      [] f = "part_000" -> part_000
      [] f = "part_001" -> part_001
      [] f = "part_002" -> part_002
      [] f = "part_003" -> part_003
      [] f = "part_004" -> part_004
      [] f = "part_005" -> part_005 ]

Program(f) == ProgramOf[f]

(***************************************************************************)
(* Reading a program text.                                                 *)
(***************************************************************************)

Stmts(prog) == 1..Len(prog)

StmtsOf(prog, fn) == { i \in Stmts(prog) : prog[i].fn = fn }

\* the last statement calling fn in front of statement i, 0 when there is none
LastBefore(prog, i, fn) ==
  LET s == { j \in StmtsOf(prog, fn) : j < i }
  IN  IF s = {} THEN 0 ELSE CHOOSE j \in s : \A k \in s : k <= j

\* the first statement calling fn, 0 when there is none
FirstOf(prog, fn) ==
  LET s == StmtsOf(prog, fn)
  IN  IF s = {} THEN 0 ELSE CHOOSE j \in s : \A k \in s : j <= k

(***************************************************************************)
(* The host.  A process is launched on one file, executes the statement    *)
(* at pc, and is gone after JavaFoil.Exit().  The output directory         *)
(* outlives the processes.                                                 *)
(***************************************************************************)

VARIABLES
  ran,       \* files a process has been launched on
  file,      \* file loaded by the current process
  host,      \* "none", "running" or "exited"
  pc,        \* index of the next statement of the file
  issued,    \* calls issued by the current process: statement and outcome
  country,   \* arguments of the last successful Options.Country
  airfoil,   \* arguments of the last successful Geometry.CreateAirfoil
  mach,      \* arguments of the last successful Options.MachNumber
  polar,     \* polar held by the process: <<airfoil, mach, sweep>>
  disk,      \* output files: path -> polar written
  failures   \* host calls that reported failure so far

vars == << ran, file, host, pc, issued, country, airfoil, mach, polar, disk,
           failures >>

NoFile == "none"

Unset == << >>

NoFiles == [p \in {} |-> Unset]

\* a script that repeats a call that failed
NextStmt_Retry(p, ok) == IF ok THEN p + 1 ELSE p

\* a script that stops at a call that failed
NextStmt_Abort(p, ok) == IF ok THEN p + 1 ELSE 0

\* the statement a script continues with after the call at p returned
NextStmt(p, ok) == p + 1

Fetch(fn) ==
  /\ host = "running"
  /\ pc \in Stmts(Program(file))
  /\ Program(file)[pc].fn = fn

Args == Program(file)[pc].args

Outcomes == IF failures < MaxFailures THEN BOOLEAN ELSE {TRUE}

Return(ok) ==
  /\ pc' = NextStmt(pc, ok)
  /\ issued' = Append(issued, [stmt |-> pc, ok |-> ok])
  /\ failures' = IF ok THEN failures ELSE failures + 1

Init ==
  /\ ran = {}
  /\ file = NoFile
  /\ host = "none"
  /\ pc = 0
  /\ issued = << >>
  /\ country = Unset
  /\ airfoil = Unset
  /\ mach = Unset
  /\ polar = Unset
  /\ disk = NoFiles
  /\ failures = 0

\* a fresh host process is started on file f
Launch(f) ==
  /\ host # "running"
  /\ f \notin ran
  /\ Cardinality(ran) < MaxBatch
  /\ ran' = ran \cup {f}
  /\ file' = f
  /\ host' = "running"
  /\ pc' = 1
  /\ issued' = << >>
  /\ country' = Unset
  /\ airfoil' = Unset
  /\ mach' = Unset
  /\ polar' = Unset
  /\ UNCHANGED << disk, failures >>

OptionsCountry ==
  /\ Fetch("Options.Country")
  /\ \E ok \in Outcomes :
       /\ country' = IF ok THEN Args ELSE country
       /\ Return(ok)
  /\ UNCHANGED << ran, file, host, airfoil, mach, polar, disk >>

GeometryCreateAirfoil ==
  /\ Fetch("Geometry.CreateAirfoil")
  /\ \E ok \in Outcomes :
       /\ airfoil' = IF ok THEN Args ELSE airfoil
       /\ Return(ok)
  /\ UNCHANGED << ran, file, host, country, mach, polar, disk >>

OptionsMachNumber ==
  /\ Fetch("Options.MachNumber")
  /\ \E ok \in Outcomes :
       /\ mach' = IF ok THEN Args ELSE mach
       /\ Return(ok)
  /\ UNCHANGED << ran, file, host, country, airfoil, polar, disk >>

PolarAnalyze ==
  /\ Fetch("Polar.Analyze")
  /\ \E ok \in Outcomes :
       /\ polar' = IF ok THEN << airfoil, mach, Args >> ELSE polar
       /\ Return(ok)
  /\ UNCHANGED << ran, file, host, country, airfoil, mach, disk >>

PolarSave ==
  /\ Fetch("Polar.Save")
  /\ \E ok \in Outcomes :
       /\ disk' = IF ok
                    THEN [p \in DOMAIN disk \cup {Args[1]} |->
                            IF p = Args[1] THEN polar ELSE disk[p]]
                    ELSE disk
       /\ Return(ok)
  /\ UNCHANGED << ran, file, host, country, airfoil, mach, polar >>

JavaFoilExit ==
  /\ Fetch("JavaFoil.Exit")
  /\ host' = "exited"
  /\ Return(TRUE)
  /\ UNCHANGED << ran, file, country, airfoil, mach, polar, disk >>

Call ==
  \/ OptionsCountry
  \/ GeometryCreateAirfoil
  \/ OptionsMachNumber
  \/ PolarAnalyze
  \/ PolarSave
  \/ JavaFoilExit

Next ==
  \/ \E f \in FileNames : Launch(f)
  \/ Call

Spec == Init /\ [][Next]_vars

\* the host executes a loaded script without pausing
FairSpec == Spec /\ WF_vars(Call)

(***************************************************************************)
(* Decoding the file name of an output path,                               *)
(*   NACA<c><p><tt>_Re<R>_M0p<m>_polar.xml                                 *)
(***************************************************************************)

DigitChars == << "0", "1", "2", "3", "4", "5", "6", "7", "8", "9" >>

IsDigit(c) == \E d \in 1..Len(DigitChars) : DigitChars[d] = c

DigitVal(c) == (CHOOSE d \in 1..Len(DigitChars) : DigitChars[d] = c) - 1

AllDigits(s) == s # << >> /\ \A i \in 1..Len(s) : IsDigit(s[i])

RECURSIVE ToNat(_)
ToNat(s) ==
  IF s = << >> THEN 0
  ELSE ToNat(SubSeq(s, 1, Len(s) - 1)) * 10 + DigitVal(s[Len(s)])

RECURSIVE Pow10(_)
Pow10(n) == IF n = 0 THEN 1 ELSE 10 * Pow10(n - 1)

\* the fields of s between the separators sep
RECURSIVE Split(_, _)
Split(s, sep) ==
  LET cut == { i \in 1..Len(s) : s[i] = sep }
  IN  IF cut = {} THEN << s >>
      ELSE LET i == CHOOSE j \in cut : \A k \in cut : j <= k
           IN  << SubSeq(s, 1, i - 1) >> \o Split(SubSeq(s, i + 1, Len(s)), sep)

Drop(s, n) == SubSeq(s, n + 1, Len(s))

Take(s, n) == SubSeq(s, 1, n)

\* the path names the case with geometry geo, Mach number m and sweep an
PathEncodes(path, geo, m, an) ==
  LET f    == Split(path.name, "_")
      code == Drop(f[1], 4)
      re   == Drop(f[2], 2)
      md   == Drop(f[3], 3)
  IN  /\ path.dir = ResultsDir
      /\ Len(f) = 4
      /\ Take(f[1], 4) = << "N", "A", "C", "A" >>
      /\ Len(code) = 4 /\ AllDigits(code)
      /\ Take(f[2], 2) = << "R", "e" >> /\ AllDigits(re)
      /\ Take(f[3], 3) = << "M", "0", "p" >> /\ AllDigits(md)
      /\ f[4] = << "p", "o", "l", "a", "r", ".", "x", "m", "l" >>
      /\ geo[5] = DigitVal(code[1])                     \* camber = c/100
      /\ geo[6] = Num(DigitVal(code[2]), 0)             \* camber position = p
      /\ geo[3] = ToNat(Drop(code, 2))                  \* thickness = tt/100
      /\ an[1] = Num(ToNat(re), 0)                      \* Reynolds number = R
      /\ an[2] = Num(ToNat(re), 0)
      /\ an[3] = Num(ToNat(re), 0)
      /\ m[1] * Pow10(Len(md)) = Num(ToNat(md), 0)      \* Mach number = 0.<m>

(***************************************************************************)
(* The calls of the running process.                                       *)
(***************************************************************************)

Loaded == host # "none"

Prog == Program(file)

IssuedFn(k) == Prog[issued[k].stmt].fn

\* the call the process issued last is a call of fn
JustIssued(fn) == issued # << >> /\ IssuedFn(Len(issued)) = fn

IssuedOf(fn) == { k \in 1..Len(issued) : IssuedFn(k) = fn }

\* the statements a process executes: up to the first JavaFoil.Exit()
Executed(prog) ==
  LET e == FirstOf(prog, "JavaFoil.Exit")
  IN  IF e = 0 THEN Stmts(prog) ELSE 1..e

TemplateOrder ==
  << "Options.Country", "Geometry.CreateAirfoil", "Options.MachNumber",
     "Polar.Analyze", "Polar.Save", "JavaFoil.Exit" >>

\* every issued call of b has an earlier issued call of a
IssuedAfter(b, a) == \A k \in IssuedOf(b) : \E j \in IssuedOf(a) : j < k

\* C1: the calls of a process are issued in the order Options.Country,
\* Geometry.CreateAirfoil, Options.MachNumber, Polar.Analyze, Polar.Save,
\* JavaFoil.Exit; Polar.Analyze never comes before the geometry and the Mach
\* number are set, Polar.Save never before Polar.Analyze, JavaFoil.Exit never
\* before Polar.Save.
C1_CallOrder ==
  Loaded =>
    /\ Len(issued) <= Len(TemplateOrder)
    /\ \A k \in 1..Len(issued) : IssuedFn(k) = TemplateOrder[k]
    /\ IssuedAfter("Polar.Analyze", "Geometry.CreateAirfoil")
    /\ IssuedAfter("Polar.Analyze", "Options.MachNumber")
    /\ IssuedAfter("Polar.Save", "Polar.Analyze")
    /\ IssuedAfter("JavaFoil.Exit", "Polar.Save")

C1_Witness ==
  /\ host = "exited"
  /\ file = "macro_NACA8335_Re300000_M0p1"
  /\ Len(issued) = Len(TemplateOrder)

Count(prog, fn) == Cardinality(StmtsOf(prog, fn))

\* C2: every file holds exactly one case, executed once: one
\* Geometry.CreateAirfoil, one Options.MachNumber, one Polar.Analyze and one
\* Polar.Save per file, JavaFoil.Exit() is the last call of the file, and no
\* call of the file is left unexecuted once the process has exited.
C2_OneCasePerFile ==
  host = "exited" =>
    /\ Count(Prog, "Geometry.CreateAirfoil") = 1
    /\ Count(Prog, "Options.MachNumber") = 1
    /\ Count(Prog, "Polar.Analyze") = 1
    /\ Count(Prog, "Polar.Save") = 1
    /\ StmtsOf(Prog, "JavaFoil.Exit") = { Len(Prog) }
    /\ { issued[k].stmt : k \in 1..Len(issued) } = Stmts(Prog)
    /\ pc > Len(Prog)

AllNumeric(args) == \A a \in 1..Len(args) : args[a] \in Int

Arity(prog, fn, n) == \A i \in StmtsOf(prog, fn) : Len(prog[i].args) = n

\* C3 as stated: every file a process has run to its exit follows the
\* template with nine numeric parameters for Geometry.CreateAirfoil, one for
\* Options.MachNumber, ten for Polar.Analyze and one output path for
\* Polar.Save, and ends with the JavaFoil.Exit() call.
C3_NineGeometryParameters ==
  JustIssued("JavaFoil.Exit") =>
    /\ Arity(Prog, "Geometry.CreateAirfoil", 9)
    /\ airfoil # Unset => Len(airfoil) = 9
    /\ Arity(Prog, "Options.MachNumber", 1)
    /\ Arity(Prog, "Polar.Analyze", 10)
    /\ Arity(Prog, "Polar.Save", 1)
    /\ Prog[Len(Prog)].fn = "JavaFoil.Exit"

\* C3 amended: every file a process has run to its exit follows the
\* template with eleven numeric parameters for Geometry.CreateAirfoil, one
\* for Options.MachNumber, ten for Polar.Analyze and one output path for
\* Polar.Save, and ends with the JavaFoil.Exit() call.
C3_Template ==
  JustIssued("JavaFoil.Exit") =>
    /\ Arity(Prog, "Geometry.CreateAirfoil", 11)
    /\ airfoil # Unset => Len(airfoil) = 11
    /\ \A i \in StmtsOf(Prog, "Geometry.CreateAirfoil") : AllNumeric(Prog[i].args)
    /\ Arity(Prog, "Options.MachNumber", 1)
    /\ \A i \in StmtsOf(Prog, "Options.MachNumber") : AllNumeric(Prog[i].args)
    /\ Arity(Prog, "Polar.Analyze", 10)
    /\ Arity(Prog, "Polar.Save", 1)
    /\ \A i \in StmtsOf(Prog, "Polar.Save") : Prog[i].args[1].dir = ResultsDir
    /\ Prog[Len(Prog)].fn = "JavaFoil.Exit"
    /\ \A i \in Stmts(Prog) : \E o \in 1..Len(TemplateOrder) : Prog[i].fn = TemplateOrder[o]

C3_Witness ==
  /\ host = "exited"
  /\ file = "macro_NACA4305_Re500000_M0p3"
  /\ Len(airfoil) = 11
  /\ polar # Unset

\* the arguments of the last call of fn in front of statement i
ArgsBefore(prog, i, fn) ==
  LET j == LastBefore(prog, i, fn)
  IN  IF j = 0 THEN Unset ELSE prog[j].args

Complete(p) == p # Unset /\ p[1] # Unset /\ p[2] # Unset

\* C4: the path passed to Polar.Save names the case it closes: in
\* NACA<c><p><tt>_Re<R>_M0p<m>_polar.xml, c/100 is the camber, p the camber
\* position and tt/100 the thickness passed to Geometry.CreateAirfoil, R the
\* Reynolds number passed to Polar.Analyze and 0.<m> the value passed to
\* Options.MachNumber in the same case.  Stated when a process has issued
\* Polar.Save, of every case of its file and of the output file written.
C4_PathEncodesCase ==
  JustIssued("Polar.Save") =>
    /\ \A i \in StmtsOf(Prog, "Polar.Save") :
         /\ LastBefore(Prog, i, "Geometry.CreateAirfoil") # 0
         /\ LastBefore(Prog, i, "Options.MachNumber") # 0
         /\ LastBefore(Prog, i, "Polar.Analyze") # 0
         /\ PathEncodes(Prog[i].args[1],
                        ArgsBefore(Prog, i, "Geometry.CreateAirfoil"),
                        ArgsBefore(Prog, i, "Options.MachNumber"),
                        ArgsBefore(Prog, i, "Polar.Analyze"))
    /\ LET p == Prog[issued[Len(issued)].stmt].args[1]
       IN  issued[Len(issued)].ok =>
             /\ p \in DOMAIN disk
             /\ Complete(disk[p]) =>
                  PathEncodes(p, disk[p][1], disk[p][2], disk[p][3])

C4_Witness ==
  /\ file = "macro_NACA0635_Re300000_M0p3"
  /\ \E k \in IssuedOf("Polar.Save") :
       /\ issued[k].ok
       /\ Prog[issued[k].stmt].args[1] \in DOMAIN disk
       /\ Complete(disk[Prog[issued[k].stmt].args[1]])

\* C5: in every Polar.Analyze call the three Reynolds-number arguments are
\* one identical value between 100,000 and 500,000 inclusive.
C5_ReynoldsTriple ==
  Loaded =>
    \A i \in StmtsOf(Prog, "Polar.Analyze") :
      LET a == Prog[i].args
      IN  /\ a[1] = a[2]
          /\ a[2] = a[3]
          /\ a[1] >= Num(100000, 0)
          /\ a[1] <= Num(500000, 0)

C5_Witness ==
  /\ file = "macro_NACA2730_Re400000_M0p2"
  /\ polar # Unset
  /\ polar[3][1] = Num(400000, 0)
  /\ polar[3][3] = Num(400000, 0)

\* C6: every case sets exactly one Mach number: Options.MachNumber is called
\* exactly once between Geometry.CreateAirfoil and Polar.Analyze of the case,
\* with a value between 0.1 and 0.3 inclusive, and the Mach number in effect
\* when Polar.Analyze runs is the one set by this case.
C6_OneMachPerCase ==
  Loaded =>
    /\ \A i \in StmtsOf(Prog, "Polar.Analyze") :
         LET g  == LastBefore(Prog, i, "Geometry.CreateAirfoil")
             ms == { j \in StmtsOf(Prog, "Options.MachNumber") : g < j /\ j < i }
         IN  /\ g # 0
             /\ Cardinality(ms) = 1
             /\ \A j \in ms : /\ Len(Prog[j].args) = 1
                              /\ Prog[j].args[1] >= Num(0, 10)
                              /\ Prog[j].args[1] <= Num(0, 30)
    /\ \A k \in IssuedOf("Polar.Analyze") :
         LET ms == { j \in IssuedOf("Options.MachNumber") : j < k }
         IN  /\ Cardinality(ms) = 1
             /\ \A j \in ms :
                  issued[j].ok /\ issued[k].ok =>
                    /\ polar # Unset
                    /\ polar[2] = Prog[issued[j].stmt].args

C6_Witness ==
  /\ file = "part_005"
  /\ \E k \in IssuedOf("Polar.Analyze") : issued[k].ok
  /\ polar # Unset
  /\ polar[2] = << Num(0, 10) >>

\* argument positions that do not name the case
FixedArgs(fn) ==
  CASE fn = "Options.Country"        -> { 1 }
    [] fn = "Geometry.CreateAirfoil" -> { 1, 2, 4, 7, 8, 9, 10, 11 }
    [] fn = "Options.MachNumber"     -> { }
    [] fn = "Polar.Analyze"          -> { 4, 5, 6, 7, 8, 9, 10 }
    [] fn = "Polar.Save"             -> { }
    [] fn = "JavaFoil.Exit"          -> { }

\* C7: across all cases only thickness, camber and camber position, the Mach
\* number, the Reynolds number and the output path vary; every other
\* argument is the same literal in every case: country 1, airfoil family 0,
\* panel count 101, angle of attack from -10.0 to 10.0 in steps of 1.0, and
\* the remaining Geometry.CreateAirfoil and Polar.Analyze arguments.  Stated
\* of a file a process has run to its exit, against every file of the batch.
C7_FixedLiterals ==
  JustIssued("JavaFoil.Exit") =>
    \A i \in Stmts(Prog) :
      LET c == Prog[i]
      IN  /\ c.fn = "Options.Country" => c.args = << Num(1, 0) >>
          /\ c.fn = "Geometry.CreateAirfoil" =>
               c.args[1] = Num(0, 0) /\ c.args[2] = Num(101, 0)
          /\ c.fn = "Polar.Analyze" =>
               /\ c.args[4] = Num(-10, 0)
               /\ c.args[5] = Num(10, 0)
               /\ c.args[6] = Num(1, 0)
          /\ \A g \in ran : \A j \in StmtsOf(Program(g), c.fn) :
               LET d == Program(g)[j]
               IN  /\ Len(d.args) = Len(c.args)
                   /\ \A a \in FixedArgs(c.fn) : d.args[a] = c.args[a]

C7_Witness ==
  /\ host = "exited"
  /\ file = "part_004"
  /\ country = << Num(1, 0) >>
  /\ airfoil # Unset
  /\ airfoil[2] = Num(101, 0)
  /\ polar # Unset
  /\ polar[3][4] = Num(-10, 0)

AtMostOnce ==
  \A j, k \in 1..Len(issued) : j # k => issued[j].stmt # issued[k].stmt

\* C8: a macro is a straight line of calls: no call of the file is executed
\* twice, the number of calls issued is bounded by the length of the file,
\* and, every host call returning, a running process reaches
\* JavaFoil.Exit().
C8_RunsToExit ==
  /\ [](Loaded => AtMostOnce /\ Len(issued) <= Len(Prog))
  /\ (host = "running") ~> (host = "exited")

C8_Witness ==
  /\ host = "exited"
  /\ file = "macro_NACA9235_Re200000_M0p3"
  /\ IssuedOf("JavaFoil.Exit") # { }

\* C9: no macro looks at the outcome of a host call: whatever the calls
\* returned, the statements are issued one after the other, none is retried
\* or skipped, and a running process always has its next statement to issue;
\* so Polar.Save follows a failed Geometry.CreateAirfoil or Polar.Analyze and
\* JavaFoil.Exit() follows a failed Polar.Save.
C9_OutcomesIgnored ==
  Loaded =>
    /\ \A k \in 1..Len(issued) : issued[k].stmt = k
    /\ host = "running" => pc = Len(issued) + 1 /\ pc \in Stmts(Prog)
    /\ \A k \in 1..Len(issued) :
         ~issued[k].ok /\ host = "exited" =>
           /\ IssuedOf("Polar.Save") # { }
           /\ IssuedOf("JavaFoil.Exit") # { }

FailedThen(a, b) ==
  \E j \in IssuedOf(a) : \E k \in IssuedOf(b) : j < k /\ ~issued[j].ok

C9_Witness ==
  /\ file = "macro_NACA2505_Re500000_M0p2"
  /\ \/ FailedThen("Geometry.CreateAirfoil", "Polar.Save")
     \/ FailedThen("Polar.Analyze", "Polar.Save")
     \/ FailedThen("Polar.Save", "JavaFoil.Exit")

\* the Polar.Save statements of the files in s: << file, statement >>
Saves(s) ==
  UNION { { << f, i >> : i \in StmtsOf(Program(f), "Polar.Save") } : f \in s }

SavePath(x) == Program(x[1])[x[2]].args[1]

\* the output files left by processes run on the files in s, every call
\* succeeding
Outputs(s) ==
  LET run == { x \in Saves(s) : x[2] \in Executed(Program(x[1])) }
  IN  [ p \in { SavePath(x) : x \in run } |->
          LET x == CHOOSE y \in run : SavePath(y) = p
              prog == Program(x[1])
          IN  << ArgsBefore(prog, x[2], "Geometry.CreateAirfoil"),
                 ArgsBefore(prog, x[2], "Options.MachNumber"),
                 ArgsBefore(prog, x[2], "Polar.Analyze") >> ]

Kept == \A p \in DOMAIN disk : p \in DOMAIN disk' /\ disk'[p] = disk[p]

\* C10: the cases are independent: the paths passed to Polar.Save are
\* pairwise distinct over all cases of all files of a batch (every pair of
\* files is run in some batch), no process changes an
\* output file written before, and the output files left by a batch in which
\* every call succeeded depend on the set of files run, not on their order.
C10_IndependentCases ==
  /\ [](\A x, y \in Saves(ran) : x # y => SavePath(x) # SavePath(y))
  /\ [][Kept]_vars
  /\ [](host = "exited" /\ failures = 0 => disk = Outputs(ran))

C10_Witness ==
  /\ host = "exited"
  /\ failures = 0
  /\ Cardinality(ran) = MaxBatch
  /\ Cardinality(DOMAIN disk) = MaxBatch
  /\ "macro_NACA1120_Re500000_M0p2" \in ran

=============================================================================
